---------------------------- MODULE Spec2Model ----------------------------
(***************************************************************************)
(* Model of taimio-report: src/taimio_report.py (the report tool) and      *)
(* src/tiima_report.py (its earlier, day-report-only version).             *)
(*                                                                         *)
(* Python strings are sequences of one-character strings.  An optional     *)
(* value (Python's None or a value) is None == <<>> or Some(v) == <<v>>.   *)
(* Durations and instants are whole seconds; an hours value h is the       *)
(* number of seconds h * 3600, so that no floating-point rounding is       *)
(* modelled: every duration of the model is exactly representable.         *)
(***************************************************************************)
EXTENDS Integers, Sequences, FiniteSets, TLC

(***************************************************************************)
(* Python values                                                           *)
(***************************************************************************)
None == << >>

Some(v) == << v >>

Val(o) == o[1]

\* the printable ASCII characters in code-point order, from 32 (space); the
\* grave accent (96), which the string syntax lacks, is held by a placeholder
Ascii ==
    << " ", "!", "\"", "#", "$", "%", "&", "'", "(", ")", "*", "+", ",", "-",
       ".", "/", "0", "1", "2", "3", "4", "5", "6", "7", "8", "9", ":", ";",
       "<", "=", ">", "?", "@", "A", "B", "C", "D", "E", "F", "G", "H", "I",
       "J", "K", "L", "M", "N", "O", "P", "Q", "R", "S", "T", "U", "V", "W",
       "X", "Y", "Z", "[", "\\", "]", "^", "_", "BACKTICK", "a", "b", "c", "d", "e",
       "f", "g", "h", "i", "j", "k", "l", "m", "n", "o", "p", "q", "r", "s",
       "t", "u", "v", "w", "x", "y", "z", "{", "|", "}", "~" >>

\* ord(c): the code point; the newline is the only control character used
Ord(c) ==
    IF c = "\n" THEN 10
    ELSE 31 + (CHOOSE i \in 1..Len(Ascii) : Ascii[i] = c)

Digits == << "0", "1", "2", "3", "4", "5", "6", "7", "8", "9" >>

IsDigit(c) == \E i \in 1..Len(Digits) : Digits[i] = c

DigitVal(c) == (CHOOSE i \in 1..Len(Digits) : Digits[i] = c) - 1

IsSpace(c) == c \in {" ", "\n", "\t"}

\* str < str: lexicographic by code point
RECURSIVE StrLess(_, _)
StrLess(a, b) ==
    IF b = << >> THEN FALSE
    ELSE IF a = << >> THEN TRUE
    ELSE IF Head(a) # Head(b) THEN Ord(Head(a)) < Ord(Head(b))
    ELSE StrLess(Tail(a), Tail(b))

\* int(s) of a string of decimal digits
RECURSIVE ParseInt(_)
ParseInt(s) ==
    IF s = << >> THEN 0
    ELSE 10 * ParseInt(SubSeq(s, 1, Len(s) - 1)) + DigitVal(s[Len(s)])

\* str(n) of an integer n >= 0
RECURSIVE NatStr(_)
NatStr(n) ==
    IF n < 10 THEN << Digits[n + 1] >>
    ELSE NatStr(n \div 10) \o << Digits[(n % 10) + 1] >>

\* '%0*d': n >= 0 padded with zeros to at least w digits
RECURSIVE ZeroPad(_, _)
ZeroPad(s, w) == IF Len(s) >= w THEN s ELSE ZeroPad(<< "0" >> \o s, w)

\* sep.join(parts)
RECURSIVE Join(_, _)
Join(sep, parts) ==
    IF parts = << >> THEN << >>
    ELSE IF Len(parts) = 1 THEN parts[1]
    ELSE parts[1] \o sep \o Join(sep, Tail(parts))

\* s.strip()
RECURSIVE Strip(_)
Strip(s) ==
    IF s = << >> THEN s
    ELSE IF IsSpace(Head(s)) THEN Strip(Tail(s))
    ELSE IF IsSpace(s[Len(s)]) THEN Strip(SubSeq(s, 1, Len(s) - 1))
    ELSE s

(***************************************************************************)
(* DATE_REGEX and parse_date                                               *)
(***************************************************************************)
\* the length of the longest prefix of s made of digits: the greedy \d+
RECURSIVE DigitPrefix(_)
DigitPrefix(s) ==
    IF s = << >> \/ ~IsDigit(Head(s)) THEN 0 ELSE 1 + DigitPrefix(Tail(s))

\* '$' matches at the end of the string and before a final newline
AtEnd(s) == s = << >> \/ s = << "\n" >>

\* (0\d|1[0-2])
MonthShape(s) ==
    /\ Len(s) = 2
    /\ \/ s[1] = "0" /\ IsDigit(s[2])
       \/ s[1] = "1" /\ s[2] \in {"0", "1", "2"}

\* ([0-2]\d|3[0-1])
DayShape(s) ==
    /\ Len(s) = 2
    /\ \/ s[1] \in {"0", "1", "2"} /\ IsDigit(s[2])
       \/ s[1] = "3" /\ s[2] \in {"0", "1"}

\* re.match(DATE_REGEX, date): None, or Some of the groups 1, 2, 3, where an
\* optional group that took no part in the match is None
DateMatch(date) ==
    LET n == DigitPrefix(date)
        rest == SubSeq(date, n + 1, Len(date))
        g1 == SubSeq(date, 1, n)
    IN  IF n = 0 THEN None
        ELSE IF AtEnd(rest) THEN Some(<< Some(g1), None, None >>)
        ELSE IF Len(rest) >= 3 /\ rest[1] = "-" /\ MonthShape(SubSeq(rest, 2, 3))
        THEN LET g2 == SubSeq(rest, 2, 3)
                 rest2 == SubSeq(rest, 4, Len(rest))
             IN  IF AtEnd(rest2) THEN Some(<< Some(g1), Some(g2), None >>)
                 ELSE IF /\ Len(rest2) >= 3
                         /\ rest2[1] = "-"
                         /\ DayShape(SubSeq(rest2, 2, 3))
                         /\ AtEnd(SubSeq(rest2, 4, Len(rest2)))
                 THEN Some(<< Some(g1), Some(g2), Some(SubSeq(rest2, 2, 3)) >>)
                 ELSE None
        ELSE None

\* int(s) if s else None
IntOrNone(g) == IF g # None /\ Val(g) # << >> THEN Some(ParseInt(Val(g))) ELSE None

\* parse_date: None stands for the ValueError, Some(<<year, month, day>>)
\* for the three values, month and day being None or Some(n)
parse_date(date) ==
    LET match == DateMatch(date)
    IN  IF match = None THEN None
        ELSE Some(<< IntOrNone(Val(match)[1]),
                     IntOrNone(Val(match)[2]),
                     IntOrNone(Val(match)[3]) >>)

(***************************************************************************)
(* Calendar dates: datetime.date and calendar.monthrange                   *)
(***************************************************************************)
\* bool(x) of an optional integer: None and 0 are false
Truthy(o) == o # None /\ Val(o) # 0

\* x or d
OrElse(o, d) == IF Truthy(o) THEN Val(o) ELSE d

IsLeap(year) == year % 4 = 0 /\ (year % 100 # 0 \/ year % 400 = 0)

\* a calendar without leap years
DaysInMonthCommon(year, month) ==
    IF month = 2 THEN 28
    ELSE IF month \in {4, 6, 9, 11} THEN 30
    ELSE 31

\* calendar.monthrange(year, month)[1], for month in 1..12
DaysInMonth(year, month) ==
    IF month = 2 THEN (IF IsLeap(year) THEN 29 ELSE 28)
    ELSE IF month \in {4, 6, 9, 11} THEN 30
    ELSE 31

\* datetime.date(year, month, day): None stands for the ValueError raised
\* for a year outside 1..9999, a month outside 1..12 or a day outside the
\* month; a date is the tuple <<year, month, day>>, which orders as dates do
date(year, month, day) ==
    IF /\ year \in 1..9999
       /\ month \in 1..12
       /\ day \in 1..DaysInMonth(year, month)
    THEN Some(<< year, month, day >>)
    ELSE None

\* date < date
DateLess(a, b) ==
    \/ a[1] < b[1]
    \/ a[1] = b[1] /\ a[2] < b[2]
    \/ a[1] = b[1] /\ a[2] = b[2] /\ a[3] < b[3]

\* the days of the months of a year before month
RECURSIVE DaysBeforeMonth(_, _)
DaysBeforeMonth(year, month) ==
    IF month = 1 THEN 0
    ELSE DaysBeforeMonth(year, month - 1) + DaysInMonth(year, month - 1)

\* date.toordinal(): the day number, 0001-01-01 being day 1
Ordinal(d) ==
    LET y == d[1] - 1
    IN  y * 365 + (y \div 4) - (y \div 100) + (y \div 400)
          + DaysBeforeMonth(d[1], d[2]) + d[3]

\* str(date): YYYY-MM-DD
DateStr(d) ==
    ZeroPad(NatStr(d[1]), 4) \o << "-" >> \o ZeroPad(NatStr(d[2]), 2)
        \o << "-" >> \o ZeroPad(NatStr(d[3]), 2)

\* get_last_date_of_month: None stands for the ValueError of monthrange (a
\* month outside 1..12) or of datetime.date (a year outside 1..9999)
get_last_date_of_month(year, month) ==
    IF month \in 1..12 THEN date(year, month, DaysInMonth(year, month))
    ELSE None

get_last_date_of_year(year) == get_last_date_of_month(year, 12)

\* the end date of main, from the year, month and day in force at line 154
EndDate(year, month, day) ==
    IF ~Truthy(month) THEN get_last_date_of_year(Val(year))
    ELSE IF ~Truthy(day) THEN get_last_date_of_month(Val(year), Val(month))
    ELSE date(Val(year), Val(month), Val(day))

\* the try block of main: None stands for a ValueError raised inside it,
\* Some(<<start_date, end_date>>) for its two results.  dates is the tail of
\* sys.argv from index 3: the start string and, optionally, the end string
ResolveRange(dates) ==
    LET first == parse_date(dates[1])
    IN  IF first = None THEN None
        ELSE
          LET start_date ==
                  date(Val(Val(first)[1]), OrElse(Val(first)[2], 1),
                       OrElse(Val(first)[3], 1))
              last == IF Len(dates) > 1 THEN parse_date(dates[2]) ELSE first
          IN  IF start_date = None \/ last = None THEN None
              ELSE
                LET end_date ==
                        EndDate(Val(last)[1], Val(last)[2], Val(last)[3])
                IN  IF end_date = None THEN None
                    ELSE Some(<< Val(start_date), Val(end_date) >>)

(***************************************************************************)
(* Activities, projects and hours                                          *)
(***************************************************************************)
\* a timestamp with offset, as arrow.get reads it: the local calendar date,
\* the local time of day in seconds and the offset from UTC in seconds
Timestamp(d, time, utcoffset) == [date |-> d, time |-> time, utcoffset |-> utcoffset]

\* finished - started, a timedelta, as total_seconds(): the difference of
\* the two absolute instants
Delta(finished, started) ==
    (Ordinal(finished.date) - Ordinal(started.date)) * 86400
      + (finished.time - finished.utcoffset) - (started.time - started.utcoffset)

\* as_activity
Activity(title, tags, started_at, finished_at) ==
    [title |-> title, tags |-> tags,
     started_at |-> started_at, finished_at |-> finished_at]

\* get_activity_project: None, or Some of the project of the first tag of
\* the activity that is a key of tag_projects
RECURSIVE FirstProject(_, _)
FirstProject(tags, tag_projects) ==
    IF tags = << >> THEN None
    ELSE IF Head(tags) \in DOMAIN tag_projects THEN Some(tag_projects[Head(tags)])
    ELSE FirstProject(Tail(tags), tag_projects)

get_activity_project(activity, tag_projects) ==
    FirstProject(activity.tags, tag_projects)

Other == << "O", "t", "h", "e", "r" >>

\* str(project): the project without the replacement by 'Other'
OrNothing(project) ==
    IF project = None THEN << "N", "o", "n", "e" >> ELSE Val(project)

\* project or 'Other': None and the empty string are false
OrOther(project) ==
    IF project # None /\ Val(project) # << >> THEN Val(project) ELSE Other

\* calculate_activity_duration_hours, in seconds (hours * 3600)
calculate_activity_duration_hours(activity) ==
    Delta(activity.finished_at, activity.started_at)

\* sum(calculate_activity_duration_hours(a) for a in activities)
RECURSIVE SumHours(_)
SumHours(activities) ==
    IF activities = << >> THEN 0
    ELSE calculate_activity_duration_hours(Head(activities))
           + SumHours(Tail(activities))

\* rounding to the nearest integer, a tie going up
round_half_up(num, den) == (2 * num + den) \div (2 * den)

\* round(x) of the fraction num / den, den > 0: to the nearest integer, a
\* tie going to the even one
round(num, den) ==
    LET q == num \div den
        r == num % den
    IN  IF 2 * r < den THEN q
        ELSE IF 2 * r > den THEN q + 1
        ELSE IF q % 2 = 0 THEN q
        ELSE q + 1

\* str(n / 2) for an integer n: a float with the fraction .0 or .5
HalfStr(n) ==
    LET a == IF n < 0 THEN -n ELSE n
    IN  (IF n < 0 THEN << "-" >> ELSE << >>)
          \o NatStr(a \div 2) \o << "." >>
          \o (IF a % 2 = 0 THEN << "0" >> ELSE << "5" >>)

\* format_hours, of an hours value given in seconds: number * 2 is
\* seconds / 1800
format_hours(number) == HalfStr(round(number, 1800)) \o << "h" >>

(***************************************************************************)
(* load_projects                                                           *)
(***************************************************************************)
\* the index of the first '=' of a line, 0 when it has none
RECURSIVE FindEq(_, _)
FindEq(line, i) ==
    IF i > Len(line) THEN 0
    ELSE IF line[i] = "=" THEN i
    ELSE FindEq(line, i + 1)

\* load_projects: None stands for the ValueError of unpacking a line
\* without '='; a later line of a tag replaces an earlier one
RECURSIVE LoadLines(_, _)
LoadLines(lines, tag_projects) ==
    IF lines = << >> THEN Some(tag_projects)
    ELSE
      LET line == Head(lines)
          eq == FindEq(line, 1)
      IN  IF eq = 0 THEN None
          ELSE
            LET tag == Strip(SubSeq(line, 1, eq - 1))
                project == Strip(SubSeq(line, eq + 1, Len(line)))
            IN  LoadLines(Tail(lines),
                    [t \in (DOMAIN tag_projects) \cup {tag} |->
                        IF t = tag THEN project ELSE tag_projects[t]])

load_projects(lines) == LoadLines(lines, << >>)

(***************************************************************************)
(* Grouping and the two reports                                            *)
(***************************************************************************)
\* the elements of a sequence
Range(seq) == {seq[i] : i \in 1..Len(seq)}

\* the dates in descending order
RECURSIVE SortDatesDescending(_)
SortDatesDescending(dates) ==
    IF dates = {} THEN << >>
    ELSE LET greatest == CHOOSE d \in dates : \A e \in dates \ {d} : DateLess(e, d)
         IN  << greatest >> \o SortDatesDescending(dates \ {greatest})

\* sorted(dates)
RECURSIVE SortDates(_)
SortDates(dates) ==
    IF dates = {} THEN << >>
    ELSE LET least == CHOOSE d \in dates : \A e \in dates \ {d} : DateLess(d, e)
         IN  << least >> \o SortDates(dates \ {least})

\* sorted(projects), of a set of strings
RECURSIVE SortStrs(_)
SortStrs(strs) ==
    IF strs = {} THEN << >>
    ELSE LET least == CHOOSE x \in strs : \A y \in strs \ {x} : StrLess(x, y)
         IN  << least >> \o SortStrs(strs \ {least})

\* the activities of a list that start on a date, in the order of the list
OnDate(activities, d) ==
    SelectSeq(activities, LAMBDA a : a.started_at.date = d)

\* group_activities_by_date: the pairs <<date, activities>> in date order
group_activities_by_date(activities) ==
    LET dates == SortDates({a.started_at.date : a \in Range(activities)})
    IN  [i \in 1..Len(dates) |-> << dates[i], OnDate(activities, dates[i]) >>]

\* generate_day_report: the tuples <<date, activities, projects>> it yields
generate_day_report(activities, tag_projects) ==
    LET groups == group_activities_by_date(activities)
    IN  [i \in 1..Len(groups) |->
            << groups[i][1], groups[i][2],
               SortStrs({OrOther(get_activity_project(a, tag_projects)) :
                             a \in Range(groups[i][2])}) >>]

\* the keys of the defaultdict of generate_project_report, in the order in
\* which they are first inserted
RECURSIVE FirstSeen(_, _, _)
FirstSeen(activities, tag_projects, seen) ==
    IF activities = << >> THEN seen
    ELSE
      LET project == get_activity_project(Head(activities), tag_projects)
      IN  FirstSeen(Tail(activities), tag_projects,
                    IF project \in Range(seen) THEN seen
                    ELSE Append(seen, project))

\* the tuples <<date, project, activities>> of one date
ProjectRows(d, activities, tag_projects) ==
    LET keys == FirstSeen(activities, tag_projects, << >>)
    IN  [k \in 1..Len(keys) |->
            << d, OrOther(keys[k]),
               SelectSeq(activities,
                   LAMBDA a : get_activity_project(a, tag_projects) = keys[k]) >>]

RECURSIVE Flatten(_)
Flatten(seqs) ==
    IF seqs = << >> THEN << >> ELSE Head(seqs) \o Flatten(Tail(seqs))

\* generate_project_report: the tuples <<date, project, activities>>
generate_project_report(activities, tag_projects) ==
    LET groups == group_activities_by_date(activities)
    IN  Flatten([i \in 1..Len(groups) |->
                    ProjectRows(groups[i][1], groups[i][2], tag_projects)])

(***************************************************************************)
(* Texts                                                                   *)
(***************************************************************************)
DayType == << "d", "a", "y" >>

ProjectType == << "p", "r", "o", "j", "e", "c", "t" >>

\* 'Usage: ./taimio_report.py (day|project) tag <start-date> [<end-date>]'
UsageText ==
    << "U", "s", "a", "g", "e", ":", " ", ".", "/", "t", "a", "i", "m", "i",
           "o", "_", "r", "e", "p", "o", "r", "t", ".", "p", "y", " ", "(",
           "d", "a", "y", "|", "p", "r", "o", "j", "e", "c", "t", ")", " ",
           "t", "a", "g", " ", "<", "s", "t", "a", "r", "t", "-", "d", "a",
           "t", "e", ">", " ", "[", "<", "e", "n", "d", "-", "d", "a", "t",
           "e", ">", "]" >>

\* "invalid report type {}, use day or project".format(report_type)
InvalidTypeText(report_type) ==
    << "i", "n", "v", "a", "l", "i", "d", " ", "r", "e", "p", "o", "r", "t",
           " ", "t", "y", "p", "e", " " >>
      \o report_type \o
    << ",", " ", "u", "s", "e", " ", "d", "a", "y", " ", "o", "r", " ", "p",
           "r", "o", "j", "e", "c", "t" >>

\* 'Invalid date {}, use YYYY, YYYY-MM or YYYY-MM-DD'.format(arg)
InvalidDateText(arg) ==
    << "I", "n", "v", "a", "l", "i", "d", " ", "d", "a", "t", "e", " " >>
      \o arg \o
    << ",", " ", "u", "s", "e", " ", "Y", "Y", "Y", "Y", ",", " ", "Y", "Y",
           "Y", "Y", "-", "M", "M", " ", "o", "r", " ", "Y", "Y", "Y", "Y",
           "-", "M", "M", "-", "D", "D" >>

\* 'API error: {}'.format(exception)
ApiErrorText(error) ==
    << "A", "P", "I", " ", "e", "r", "r", "o", "r", ":", " " >>
      \o error

\* 'Failed to contact server {}: {}'.format(API_ROOT, exception)
ContactErrorText(error) ==
    << "F", "a", "i", "l", "e", "d", " ", "t", "o", " ", "c", "o", "n", "t",
           "a", "c", "t", " ", "s", "e", "r", "v", "e", "r", " ", "h", "t",
           "t", "p", "s", ":", "/", "/", "a", "p", "i", ".", "t", "a", "i",
           "m", ".", "i", "o", ":", " " >>
      \o error

\* what an uncaught exception leaves on the standard error
Traceback == << "T", "r", "a", "c", "e", "b", "a", "c", "k" >>

\* print(a, b, ...): the arguments separated by one space
PrintLine(args) == Join(<< " " >>, args)

\* the line of one tuple of the day report
DayLine(d, hours, projects) ==
    PrintLine(<< DateStr(d), format_hours(hours), Join(<< ",", " " >>, projects) >>)

RECURSIVE SumSeq(_)
SumSeq(numbers) ==
    IF numbers = << >> THEN 0 ELSE Head(numbers) + SumSeq(Tail(numbers))

\* the total as the sum of the rounded hours of the rows
RECURSIVE SumRounded(_)
SumRounded(numbers) ==
    IF numbers = << >> THEN 0
    ELSE round(Head(numbers), 1800) + SumRounded(Tail(numbers))

TotalLineOfRounded(hours) ==
    PrintLine(<< << "T", "o", "t", "a", "l", ":" >>,
                 HalfStr(SumRounded(hours)) \o << "h" >> >>)

\* print('Total:', format_hours(total_hours)), total_hours being the sum of
\* the hours of the rows
TotalLine(hours) ==
    PrintLine(<< << "T", "o", "t", "a", "l", ":" >>,
                 format_hours(SumSeq(hours)) >>)

\* the orders in which a set can be iterated
RECURSIVE Orders(_)
Orders(set) ==
    IF set = {} THEN {<< >>}
    ELSE UNION {{<< x >> \o rest : rest \in Orders(set \ {x})} : x \in set}

\* the lines the line of one tuple of the project report can be: the titles
\* are joined in the iteration order of a set of strings, which is any order
ProjectLines(d, hours, project, titles) ==
    {PrintLine(<< DateStr(d), format_hours(hours), project,
                  << "(" >> \o Join(<< ",", " " >>, order) \o << ")" >> >>) :
        order \in Orders(titles)}

\* the outputs the project report can have: one line of each tuple
RECURSIVE ProjectOutputs(_)
ProjectOutputs(rows) ==
    IF rows = << >> THEN {<< >>}
    ELSE {<< line >> \o rest :
            line \in ProjectLines(rows[1][1], SumHours(rows[1][3]), rows[1][2],
                                  {a.title : a \in Range(rows[1][3])}),
            rest \in ProjectOutputs(Tail(rows))}

(***************************************************************************)
(* State                                                                   *)
(***************************************************************************)
VARIABLES
    prog,           \* the script that runs: "taimio" or "tiima"
    argv,           \* sys.argv; argv[i + 1] is sys.argv[i]
    projects_file,  \* the lines of the file 'projects'
    token_file,     \* whether the file 'token' exists
    server,         \* the activities the API answers the request with
    pc,             \* the position of main
    tag_projects,   \* the mapping load_projects returned
    start_date,     \* None until set
    end_date,       \* None until set
    activities,     \* the list the report is generated from
    requests,       \* the requests sent to the API so far, oldest first
    report,         \* the tuples the report generator yielded
    hours,          \* the hours of each tuple, in seconds, unrounded
    stdout,         \* the lines printed
    stderr,         \* the message the run ended with, empty if none
    status          \* the exit status, -1 while the run goes on

vars ==
    << prog, argv, projects_file, token_file, server, pc, tag_projects,
       start_date, end_date, activities, requests, report, hours, stdout,
       stderr, status >>

\* sys.argv[i]
Arg(i) == argv[i + 1]

(***************************************************************************)
(* Inputs                                                                  *)
(***************************************************************************)
\* the longest list of activities the API answers with
MaxActs == 2

TagX == << "x" >>

TagY == << "y" >>

Alpha == << "A", "l", "p", "h", "a" >>

Title1 == << "t", "1" >>

Title2 == << "t", "2" >>

Feb28 == << 2024, 2, 28 >>

Feb29 == << 2024, 2, 29 >>

\* 09:00-10:30 and 09:00-09:45 of one day, 23:30-00:15 over midnight, and
\* 00:30-01:15 at UTC+2, which is still the day before at UTC
Intervals ==
    { << Timestamp(Feb28, 9 * 3600, 0), Timestamp(Feb28, 10 * 3600 + 1800, 0) >>,
      << Timestamp(Feb28, 9 * 3600, 0), Timestamp(Feb28, 9 * 3600 + 2700, 0) >>,
      << Timestamp(Feb28, 23 * 3600 + 1800, 0), Timestamp(Feb29, 900, 0) >>,
      << Timestamp(Feb29, 1800, 7200), Timestamp(Feb29, 3600 + 900, 7200) >> }

\* the two activities of the end-to-end scenario
ScenarioList ==
    << Activity(Title1, << TagX >>, Timestamp(Feb28, 9 * 3600, 0),
                Timestamp(Feb28, 10 * 3600 + 1800, 0)),
       Activity(Title1, << TagY >>, Timestamp(Feb28, 9 * 3600, 0),
                Timestamp(Feb28, 9 * 3600 + 2700, 0)) >>

TagLists == { << TagX >>, << TagY >>, << TagY, TagX >> }

Candidates ==
    {Activity(Title1, tags, i[1], i[2]) : tags \in TagLists, i \in Intervals}
      \cup {Activity(Title2, << TagX >>, ScenarioList[1].started_at,
                      ScenarioList[1].finished_at)}

ActivityLists == UNION {[1..n -> Candidates] : n \in 0..MaxActs}

LinesX ==
    { << "x", "=", "A", "l", "p", "h", "a", "\n" >>,
      << "x", "=", "\n" >> }

LinesY ==
    { << "y", " ", "=", " ", "O", "t", "h", "e", "r", "\n" >>,
      << "y", "=", " ", "\n" >> }

ScenarioFile == << << "x", "=", "A", "l", "p", "h", "a", "\n" >> >>

ProjectFiles ==
    {<< >>} \cup {<< l >> : l \in LinesX \cup LinesY}
      \cup {<< lx, ly >> : lx \in LinesX, ly \in LinesY}
      \cup { << << "x", "=", "A", "l", "p", "h", "a", "\n" >>,
                << "x", "=", "O", "t", "h", "e", "r", "\n" >> >>,
             << << "x", "\n" >> >> }

Script == << ".", "/", "r", "e", "p", "o", "r", "t" >>

Y2024 == << "2", "0", "2", "4" >>

YearStrs ==
    { Y2024, << "2", "0", "2", "3" >>, << "1", "9", "0", "0" >>,
      << "2", "0", "0", "0" >>, << "0", "0", "0", "0" >>, << "2", "4" >> }

MonthStrs ==
    { << "0", "0" >>, << "0", "2" >>, << "0", "4" >>, << "1", "2" >>,
      << "1", "3" >>, << "2" >> }

DayStrs ==
    { << "0", "0" >>, << "0", "1" >>, << "2", "9" >>, << "3", "0" >>,
      << "3", "1" >>, << "3", "2" >> }

JunkStrs ==
    { << >>, << "a", "b", "c" >>, << "2", "0", "2", "4", "-" >>,
      << "2", "0", "2", "4", "/", "0", "2" >>, << "-", "0", "2" >>,
      << "2", "0", "2", "4", "\n" >>, << "2", "0", "2", "4", "-", "0", "2", "-" >> }

Dash == << "-" >>

StartStrs ==
    YearStrs \cup {y \o Dash \o m : y \in YearStrs, m \in MonthStrs}
      \cup {y \o Dash \o m \o Dash \o d :
               y \in YearStrs, m \in MonthStrs, d \in DayStrs}
      \cup JunkStrs

\* the date strings used where a start and an end string are both given
PairStrs ==
    LET years == { Y2024, << "2", "0", "2", "3" >>, << "0", "0", "0", "0" >> }
        months == { << "0", "0" >>, << "0", "2" >>, << "1", "2" >> }
        days == { << "0", "0" >>, << "3", "0" >>, << "3", "1" >> }
    IN  years \cup {y \o Dash \o m : y \in years, m \in months}
          \cup {y \o Dash \o m \o Dash \o d :
                   y \in years, m \in months, d \in days}
          \cup { << "a", "b", "c" >> }

Week == << "w", "e", "e", "k" >>

\* the command lines of the runs that vary the date strings
DateArgvs ==
    {<< Script, t, TagX, s >> : t \in {DayType}, s \in StartStrs}
      \cup {<< Script, DayType, TagX, s, e >> : s \in PairStrs, e \in PairStrs}
      \cup { << Script >>, << Script, DayType, TagX >>,
             << Script, Week, TagX, Y2024 >>,
             << Script, ProjectType, TagX, Y2024 >> }

\* the command lines of the runs that vary the activities
ReportArgvs ==
    {<< "taimio", << Script, t, TagX, Y2024 >> >> : t \in {DayType, ProjectType}}
      \cup { << "tiima", << Script, TagX, Y2024, << "0", "2" >> >> >>,
             << "tiima", << Script, TagX, Y2024, << "m" >> >> >> }

(***************************************************************************)
(* Initial states                                                          *)
(***************************************************************************)
InitRun ==
    /\ pc = "start"
    /\ tag_projects = << >>
    /\ start_date = None
    /\ end_date = None
    /\ activities = << >>
    /\ requests = << >>
    /\ report = << >>
    /\ hours = << >>
    /\ stdout = << >>
    /\ stderr = << >>
    /\ status = -1

\* the runs of taimio_report.py over the date strings
Init ==
    /\ prog = "taimio"
    /\ argv \in DateArgvs
    /\ projects_file = ScenarioFile
    /\ token_file \in BOOLEAN
    /\ server = ScenarioList
    /\ InitRun

\* the runs of both scripts over the activities and the projects file
InitReport ==
    /\ \E pa \in ReportArgvs : prog = pa[1] /\ argv = pa[2]
    /\ projects_file \in ProjectFiles
    /\ token_file = TRUE
    /\ server \in ActivityLists
    /\ InitRun

(***************************************************************************)
(* main                                                                    *)
(***************************************************************************)
\* sys.exit(message), sys.exit() and the end of main
Exit(message, code) ==
    /\ pc' = "done"
    /\ stderr' = message
    /\ status' = code

\* load_projects('projects') and fetch_token(), the first two lines of main
\* in both scripts.  A projects line without '=' and a login that fails or
\* answers without a token raise an exception nothing catches.
Startup ==
    /\ pc = "start"
    /\ LET loaded == load_projects(projects_file)
       IN  IF loaded = None
           THEN /\ Exit(Traceback, 1)
                /\ UNCHANGED << tag_projects, token_file, requests >>
           ELSE /\ tag_projects' = Val(loaded)
                /\ IF token_file
                   THEN /\ pc' = IF prog = "taimio" THEN "args" ELSE "tiima"
                        /\ UNCHANGED << token_file, requests, stderr, status >>
                   ELSE /\ requests' = Append(requests, << "POST", "/login" >>)
                        /\ \E answered \in BOOLEAN :
                             IF answered
                             THEN /\ token_file' = TRUE
                                  /\ pc' = IF prog = "taimio" THEN "args" ELSE "tiima"
                                  /\ UNCHANGED << stderr, status >>
                             ELSE /\ Exit(Traceback, 1)
                                  /\ UNCHANGED token_file
    /\ UNCHANGED << prog, argv, projects_file, server, start_date, end_date,
                    activities, report, hours, stdout >>

\* the checks of sys.argv and the try block that resolves the date range
ParseArgs ==
    /\ pc = "args"
    /\ IF Len(argv) < 4
       THEN /\ stdout' = Append(stdout, UsageText)
            /\ Exit(<< >>, 0)
            /\ UNCHANGED << start_date, end_date >>
       ELSE IF Arg(1) \notin {DayType, ProjectType}
       THEN /\ Exit(InvalidTypeText(Arg(1)), 1)
            /\ UNCHANGED << start_date, end_date, stdout >>
       ELSE LET resolved == ResolveRange(SubSeq(argv, 4, Len(argv)))
            IN  IF resolved = None
                THEN /\ Exit(InvalidDateText(Arg(3)), 1)
                     /\ UNCHANGED << start_date, end_date, stdout >>
                ELSE /\ start_date' = Val(resolved)[1]
                     /\ end_date' = Val(resolved)[2]
                     /\ pc' = "fetch"
                     /\ UNCHANGED << stdout, stderr, status >>
    /\ UNCHANGED << prog, argv, projects_file, token_file, server,
                    tag_projects, activities, requests, report, hours >>

ServerError == << "e", "r", "r", "o", "r" >>

\* fetch_activities and the two except clauses around it
Fetch ==
    /\ pc = "fetch"
    /\ requests' = Append(requests,
                          << "GET", "/activities", Arg(2), start_date, end_date >>)
    /\ \E outcome \in {"200", "HTTPError", "RequestException"} :
         IF outcome = "200"
         THEN /\ activities' = server
              /\ pc' = "report"
              /\ UNCHANGED << stderr, status >>
         ELSE IF outcome = "HTTPError"
         THEN /\ Exit(ApiErrorText(ServerError), 1)
              /\ UNCHANGED activities
         ELSE /\ Exit(ContactErrorText(ServerError), 1)
              /\ UNCHANGED activities
    /\ UNCHANGED << prog, argv, projects_file, token_file, server,
                    tag_projects, start_date, end_date, report, hours, stdout >>

\* the lines of the day report, one of each tuple
DayLines(rows, row_hours) ==
    [i \in 1..Len(rows) |-> DayLine(rows[i][1], row_hours[i], rows[i][3])]

\* the two branches of main that print the report
Report ==
    /\ pc = "report"
    /\ IF Arg(1) = DayType
       THEN LET rows == generate_day_report(activities, tag_projects)
                row_hours == [i \in 1..Len(rows) |-> SumHours(rows[i][2])]
            IN  /\ report' = rows
                /\ hours' = row_hours
                /\ stdout' = stdout \o DayLines(rows, row_hours)
                                \o << TotalLine(row_hours) >>
       ELSE LET rows == generate_project_report(activities, tag_projects)
            IN  /\ report' = rows
                /\ hours' = [i \in 1..Len(rows) |-> SumHours(rows[i][3])]
                /\ \E lines \in ProjectOutputs(rows) : stdout' = stdout \o lines
    /\ Exit(<< >>, 0)
    /\ UNCHANGED << prog, argv, projects_file, token_file, server,
                    tag_projects, start_date, end_date, activities, requests >>

Next == Startup \/ ParseArgs \/ Fetch \/ Report

Spec == Init /\ [][Next]_vars

(***************************************************************************)
(* tiima_report.py                                                         *)
(***************************************************************************)
IsInt(s) == s # << >> /\ \A i \in 1..Len(s) : IsDigit(s[i])

\* filter_activities_by_month, then filter_activities_by_tag
TiimaFilter(list, tag, year, month) ==
    SelectSeq(list,
        LAMBDA a : /\ a.started_at.date[1] = year
                   /\ a.started_at.date[2] = month
                   /\ tag \in Range(a.tags))

\* generate_day_report of tiima_report.py, from the filtered activities:
\* the tuples <<date, hours, projects>>, projects being the joined names
TiimaDayReport(filtered, mapping) ==
    LET dates == SortDates({a.started_at.date : a \in Range(filtered)})
    IN  [i \in 1..Len(dates) |->
            LET on_date == OnDate(filtered, dates[i])
            IN  << dates[i],
                   SumHours(on_date),
                   Join(<< ",", " " >>,
                        SortStrs({OrOther(get_activity_project(a, mapping)) :
                                      a \in Range(on_date)})) >>]

\* main of tiima_report.py after its first two lines: int() of a string
\* that is no number raises before the generators run, so before the request
TiimaMain ==
    /\ pc = "tiima"
    /\ IF Len(argv) < 4 \/ ~IsInt(argv[3]) \/ ~IsInt(argv[4])
       THEN /\ Exit(Traceback, 1)
            /\ UNCHANGED << activities, requests, report, hours, stdout >>
       ELSE LET filtered == TiimaFilter(server, Arg(1), ParseInt(Arg(2)),
                                        ParseInt(Arg(3)))
                rows == TiimaDayReport(filtered, tag_projects)
                row_hours == [i \in 1..Len(rows) |-> rows[i][2]]
            IN  /\ requests' = Append(requests, << "GET", "/activities" >>)
                /\ activities' = filtered
                /\ report' = rows
                /\ hours' = row_hours
                /\ stdout' = stdout
                     \o [i \in 1..Len(rows) |->
                            PrintLine(<< DateStr(rows[i][1]),
                                         format_hours(rows[i][2]), rows[i][3] >>)]
                     \o << TotalLine(row_hours) >>
                /\ Exit(<< >>, 0)
    /\ UNCHANGED << prog, argv, projects_file, token_file, server,
                    tag_projects, start_date, end_date >>

NextReport == Next \/ TiimaMain

SpecReport == InitReport /\ [][NextReport]_vars

(***************************************************************************)
(* format_hours alone                                                      *)
(***************************************************************************)
\* the largest argument of format_hours, in hundredths of an hour
MaxHundredths == 300

\* hours holds the argument of the call, stdout receives its result
InitFormat ==
    /\ prog = "format_hours"
    /\ argv = << Script >>
    /\ projects_file = << >>
    /\ token_file = TRUE
    /\ server = << >>
    /\ pc = "format"
    /\ tag_projects = << >>
    /\ start_date = None
    /\ end_date = None
    /\ activities = << >>
    /\ requests = << >>
    /\ report = << >>
    /\ \E k \in 0..MaxHundredths : hours = << 36 * k >>
    /\ stdout = << >>
    /\ stderr = << >>
    /\ status = -1

FormatHours ==
    /\ pc = "format"
    /\ stdout' = << format_hours(hours[1]) >>
    /\ pc' = "done"
    /\ UNCHANGED << prog, argv, projects_file, token_file, server,
                    tag_projects, start_date, end_date, activities, requests,
                    report, hours, stderr, status >>

NextFormat == FormatHours

SpecFormat == InitFormat /\ [][NextFormat]_vars

(***************************************************************************)
(* What the specification says of the date strings                         *)
(***************************************************************************)
AllDigits(s) == \A i \in 1..Len(s) : IsDigit(s[i])

\* the number written by the two characters of s from position i
TwoDigits(s, i) == 10 * DigitVal(s[i]) + DigitVal(s[i + 1])

\* YYYY, YYYY-MM with the month 01-12, YYYY-MM-DD with the day 01-31
Grammar(s) ==
    \/ Len(s) = 4 /\ AllDigits(s)
    \/ /\ Len(s) = 7
       /\ AllDigits(SubSeq(s, 1, 4)) /\ s[5] = "-" /\ AllDigits(SubSeq(s, 6, 7))
       /\ TwoDigits(s, 6) \in 1..12
    \/ /\ Len(s) = 10
       /\ AllDigits(SubSeq(s, 1, 4)) /\ s[5] = "-" /\ AllDigits(SubSeq(s, 6, 7))
       /\ s[8] = "-" /\ AllDigits(SubSeq(s, 9, 10))
       /\ TwoDigits(s, 6) \in 1..12
       /\ TwoDigits(s, 9) \in 1..31

YearOf(s) == 100 * TwoDigits(s, 1) + TwoDigits(s, 3)

\* the days of a month of the calendar
CalendarDays(year, month) ==
    IF month \in {4, 6, 9, 11} THEN 30
    ELSE IF month # 2 THEN 31
    ELSE IF year % 400 = 0 \/ (year % 4 = 0 /\ year % 100 # 0) THEN 29
    ELSE 28

\* a string of the grammar that names a year, a month or a day that exists
ValidDateString(s) ==
    /\ Grammar(s)
    /\ YearOf(s) >= 1
    /\ Len(s) = 10 => TwoDigits(s, 9) <= CalendarDays(YearOf(s), TwoDigits(s, 6))

FirstDayOf(s) ==
    << YearOf(s),
       IF Len(s) >= 7 THEN TwoDigits(s, 6) ELSE 1,
       IF Len(s) = 10 THEN TwoDigits(s, 9) ELSE 1 >>

LastDayOf(s) ==
    IF Len(s) = 4 THEN << YearOf(s), 12, 31 >>
    ELSE IF Len(s) = 7
    THEN << YearOf(s), TwoDigits(s, 6), CalendarDays(YearOf(s), TwoDigits(s, 6)) >>
    ELSE << YearOf(s), TwoDigits(s, 6), TwoDigits(s, 9) >>

\* a run of taimio_report.py that was given a report type and date strings
DatesGiven ==
    prog = "taimio" /\ Len(argv) >= 4 /\ Arg(1) \in {DayType, ProjectType}

\* the date strings of the run
GivenStrings == {argv[i] : i \in 4..(IF Len(argv) > 4 THEN 5 ELSE 4)}

\* the run is past the resolution of the date range
Parsed == pc \in {"fetch", "report"} \/ (pc = "done" /\ stderr # Traceback)

InvalidDatePrefix == << "I", "n", "v", "a", "l", "i", "d", " ", "d", "a",
                        "t", "e", " " >>

\* the run ended with the invalid-date message
InvalidDateExit ==
    /\ pc = "done"
    /\ Len(stderr) >= Len(InvalidDatePrefix)
    /\ SubSeq(stderr, 1, Len(InvalidDatePrefix)) = InvalidDatePrefix

\* the run printed its report and ended
Reported == pc = "done" /\ status = 0 /\ Len(argv) >= 4 /\ prog # "format_hours"

DayMode == prog = "tiima" \/ (prog = "taimio" /\ Arg(1) = DayType)

ProjectMode == prog = "taimio" /\ Arg(1) = ProjectType

\* the index of the first tag of a list that is a key of a mapping, 0 if none
FirstKey(tags, mapping) ==
    IF \E i \in 1..Len(tags) : tags[i] \in DOMAIN mapping
    THEN CHOOSE i \in 1..Len(tags) :
           /\ tags[i] \in DOMAIN mapping
           /\ \A j \in 1..(i - 1) : tags[j] \notin DOMAIN mapping
    ELSE 0

\* the project the tool shows for an activity: the value of the first tag
\* that is a key, 'Other' if there is none or if that value is empty
ShownProject(a, mapping) ==
    LET k == FirstKey(a.tags, mapping)
    IN  IF k = 0 THEN Other
        ELSE IF mapping[a.tags[k]] = << >> THEN Other
        ELSE mapping[a.tags[k]]

(***************************************************************************)
(* C1                                                                      *)
(***************************************************************************)
TotalPrefix == << "T", "o", "t", "a", "l", ":", " " >>

\* C1: in day mode the 'Total:' line is format_hours applied once to the
\* unrounded sum of the durations of all the activities of the list, not
\* the sum of the rounded hours of the dated rows.
C1_TotalIsRoundedOnce ==
    (Reported /\ DayMode) =>
        /\ Len(stdout) = Len(report) + 1
        /\ stdout[Len(stdout)] = TotalPrefix \o format_hours(SumHours(activities))
        /\ SumHours(activities) = SumSeq(hours)

\* two dated rows whose rounded hours add up to another value than the
\* rounded total
C1_Witness ==
    /\ Reported /\ DayMode
    /\ Len(report) = 2
    /\ round(hours[1], 1800) + round(hours[2], 1800)
         # round(SumHours(activities), 1800)

(***************************************************************************)
(* C2                                                                      *)
(***************************************************************************)
\* C2: the project shown for an activity is the mapping's value for the
\* first tag, in the activity's own order, that is a key of the mapping, and
\* it is "Other" exactly when no tag of the activity is a key.  The rows of
\* the project report show one project for each of their activities.
C2_FirstKeyOrOther ==
    (Reported /\ ProjectMode) =>
        \A i \in 1..Len(report) : \A a \in Range(report[i][3]) :
            LET k == FirstKey(a.tags, tag_projects)
            IN  report[i][2] = IF k = 0 THEN Other ELSE tag_projects[a.tags[k]]

(***************************************************************************)
(* C3                                                                      *)
(***************************************************************************)
\* C3: for a valid start string S and an optional valid end string E the
\* range starts on the first day of the granularity of S and ends on the
\* last day of the granularity of E if E is given, otherwise of S.
C3_RangeOfGranularity ==
    (Parsed /\ DatesGiven /\ \A g \in GivenStrings : ValidDateString(g)) =>
        /\ start_date = FirstDayOf(Arg(3))
        /\ end_date = LastDayOf(argv[Len(argv)])

\* a year-month start in a common year with a year-month end in a leap year
C3_Witness ==
    /\ pc = "fetch"
    /\ argv = << Script, DayType, TagX,
                 << "2", "0", "2", "3", "-", "0", "2" >>,
                 << "2", "0", "2", "4", "-", "0", "2" >> >>
    /\ start_date = << 2023, 2, 1 >>
    /\ end_date = << 2024, 2, 29 >>

(***************************************************************************)
(* C4                                                                      *)
(***************************************************************************)
\* the result of format_hours is digits, a point, one decimal and 'h'
HoursShape(out) ==
    /\ Len(out) >= 4
    /\ out[Len(out)] = "h"
    /\ out[Len(out) - 1] \in {"0", "5"}
    /\ out[Len(out) - 2] = "."
    /\ AllDigits(SubSeq(out, 1, Len(out) - 3))

\* the number of half hours such a result names
HalfHours(out) ==
    2 * ParseInt(SubSeq(out, 1, Len(out) - 3))
      + (IF out[Len(out) - 1] = "5" THEN 1 ELSE 0)

\* the call of format_hours returned
Formatted == prog = "format_hours" /\ pc = "done"

\* the distance of h seconds from n half hours is at most a quarter hour
Nearest(h, n) == h - 1800 * n <= 900 /\ 1800 * n - h <= 900

\* C4 as amended: format_hours(h), h >= 0, is the multiple of 0.5 nearest to
\* h, with one decimal place and the suffix 'h'; a value exactly halfway
\* between two multiples is rounded to the one that is a whole number of
\* hours (0.25 to 0.0h, 0.75 to 1.0h, 1.25 to 1.0h).
C4_NearestHalfTiesToWholeHour ==
    Formatted =>
        /\ HoursShape(stdout[1])
        /\ Nearest(hours[1], HalfHours(stdout[1]))
        /\ hours[1] % 1800 = 900 => HalfHours(stdout[1]) % 2 = 0

\* C4 as stated: a value exactly halfway is rounded up
C4_NearestHalfTiesUp ==
    Formatted =>
        /\ HoursShape(stdout[1])
        /\ Nearest(hours[1], HalfHours(stdout[1]))
        /\ hours[1] % 1800 = 900 => 1800 * HalfHours(stdout[1]) > hours[1]

\* a quarter of an hour is formatted as 0.0h
C4_Witness ==
    /\ Formatted
    /\ hours[1] = 900
    /\ stdout[1] = << "0", ".", "0", "h" >>

(***************************************************************************)
(* C5                                                                      *)
(***************************************************************************)
\* the run of the scenario: the two activities, in either order, and the
\* mapping of x to Alpha alone
Scenario ==
    /\ Reported
    /\ prog = "taimio"
    /\ Len(activities) = 2
    /\ Range(activities) = Range(ScenarioList)
    /\ DOMAIN tag_projects = {TagX}
    /\ tag_projects[TagX] = Alpha

ScenarioDayRow ==
    << "2", "0", "2", "4", "-", "0", "2", "-", "2", "8", " ", "2", ".",
       "0", "h", " ", "A", "l", "p", "h", "a", ",", " ", "O", "t", "h",
       "e", "r" >>

ScenarioAlphaRow ==
    << "2", "0", "2", "4", "-", "0", "2", "-", "2", "8", " ", "1", ".",
       "5", "h", " ", "A", "l", "p", "h", "a", " ", "(", "t", "1", ")" >>

ScenarioOtherRow ==
    << "2", "0", "2", "4", "-", "0", "2", "-", "2", "8", " ", "1", ".",
       "0", "h", " ", "O", "t", "h", "e", "r", " ", "(", "t", "1", ")" >>

ScenarioOtherRowHalf ==
    << "2", "0", "2", "4", "-", "0", "2", "-", "2", "8", " ", "0", ".",
       "5", "h", " ", "O", "t", "h", "e", "r", " ", "(", "t", "1", ")" >>

\* C5 as amended: the day report prints the row '<date> 2.0h Alpha, Other'
\* and the project report prints exactly the rows '<date> 1.5h Alpha (...)'
\* and '<date> 1.0h Other (...)': three quarters of an hour show as 1.0h.
C5_ScenarioRows ==
    Scenario =>
        IF Arg(1) = DayType
        THEN Len(stdout) = 2 /\ stdout[1] = ScenarioDayRow
        ELSE Len(stdout) = 2 /\ Range(stdout) = {ScenarioAlphaRow, ScenarioOtherRow}

\* C5 as stated: the row of Other shows 0.5h
C5_ScenarioRowsAsStated ==
    Scenario =>
        IF Arg(1) = DayType
        THEN Len(stdout) = 2 /\ stdout[1] = ScenarioDayRow
        ELSE Len(stdout) = 2
               /\ Range(stdout) = {ScenarioAlphaRow, ScenarioOtherRowHalf}

\* the project report of the scenario was printed
C5_Witness ==
    /\ Scenario
    /\ Arg(1) = ProjectType
    /\ stdout = << ScenarioAlphaRow, ScenarioOtherRow >>

(***************************************************************************)
(* C6                                                                      *)
(***************************************************************************)
\* the activities of a list whose started_at is on the date d
StartedOn(list, d) == SelectSeq(list, LAMBDA a : a.started_at.date = d)

\* a list of strings in strictly ascending order
Ascending(list) ==
    \A i \in 1..Len(list) : \A j \in 1..Len(list) :
        i < j => StrLess(list[i], list[j])

CommaSpace == << ",", " " >>

FirstOf(list, d, name, mapping) ==
    CHOOSE i \in 1..Len(list) :
        /\ list[i].started_at.date = d
        /\ ShownProject(list[i], mapping) = name
        /\ \A j \in 1..(i - 1) :
               ~(list[j].started_at.date = d
                   /\ ShownProject(list[j], mapping) = name)

\* C7: in project mode there is exactly one row for each distinct pair of a
\* date and a displayed project name that occurs among the activities, the
\* displayed name being the resolved project or "Other"; the hours of the
\* row are the sum of the durations of all the activities of that date with
\* that displayed name; the rows are in ascending date order and, within a
\* date, in the order in which the projects are first seen.
C7_OneRowPerDateAndProject ==
    (Reported /\ ProjectMode) =>
        LET pairs == {<< a.started_at.date, ShownProject(a, tag_projects) >> :
                          a \in Range(activities)}
        IN  /\ Len(report) = Cardinality(pairs)
            /\ {<< report[i][1], report[i][2] >> : i \in 1..Len(report)} = pairs
            /\ \A i \in 1..Len(report) :
                 hours[i] =
                   SumHours(SelectSeq(activities,
                       LAMBDA a : /\ a.started_at.date = report[i][1]
                                  /\ ShownProject(a, tag_projects) = report[i][2]))
            /\ \A i \in 1..Len(report) : \A j \in 1..Len(report) :
                 i < j =>
                   \/ DateLess(report[i][1], report[j][1])
                   \/ /\ report[i][1] = report[j][1]
                      /\ FirstOf(activities, report[i][1], report[i][2], tag_projects)
                           < FirstOf(activities, report[j][1], report[j][2],
                                     tag_projects)

(***************************************************************************)
(* C8                                                                      *)
(***************************************************************************)
\* a string YYYY-MM or YYYY-MM-DD whose month is 00 or whose day is 00
ZeroField(s) ==
    /\ Len(s) \in {7, 10}
    /\ AllDigits(SubSeq(s, 1, 4)) /\ s[5] = "-" /\ AllDigits(SubSeq(s, 6, 7))
    /\ Len(s) = 10 => s[8] = "-" /\ AllDigits(SubSeq(s, 9, 10))
    /\ \/ TwoDigits(s, 6) = 0
       \/ Len(s) = 10 /\ TwoDigits(s, 9) = 0

\* C8: date resolution fails with the invalid-date error exactly when a
\* date string is outside the grammar YYYY, YYYY-MM (month 01-12),
\* YYYY-MM-DD (day 01-31): every string outside the grammar, month 00 and
\* day 00 included, is rejected.  Stated here for the strings the claim
\* names: a run given a month 00 or a day 00 ends with the invalid-date
\* message.
C8_ZeroMonthOrDayRejected ==
    (Parsed /\ DatesGiven /\ \E g \in GivenStrings : ZeroField(g)) =>
        InvalidDateExit

(***************************************************************************)
(* C9                                                                      *)
(***************************************************************************)
\* a date string that is outside the grammar or that the tool rejects when
\* it is the only date string
Malformed(g) == ~Grammar(g) \/ ResolveRange(<< g >>) = None

\* C9: when at least one of the date strings of a run is malformed, the
\* invalid-date message contains the string that is malformed (the start
\* string if it is the bad one, the end string if it is the bad one), never
\* a well-formed argument.
C9_MessageNamesOffender ==
    (DatesGiven /\ InvalidDateExit) =>
        \E g \in GivenStrings : Malformed(g) /\ stderr = InvalidDateText(g)

(***************************************************************************)
(* C10                                                                     *)
(***************************************************************************)
\* C10: a run whose start or end date string is invalid ends with the
\* invalid-date message without having sent any request to the API and
\* without having printed a row or a total.
C10_NoRequestBeforeInvalidDate ==
    InvalidDateExit => requests = << >> /\ stdout = << >>

=============================================================================
